---- MODULE Spec2Model ----
\* State-machine model of the CleanLink optimizer service:
\*   src/cleanlink/services/optimizer/app.py         (optimize)
\*   src/cleanlink/services/optimizer/directions.py  (distance_time and friends)
\* One optimize call is followed from the request to the HTTP outcome.
EXTENDS Integers, Sequences, FiniteSets, TLC

\* ---------------------------------------------------------------------
\* Bounds of the explored input space
\* ---------------------------------------------------------------------
MaxJobs == 3
MaxVehicles == 1

\* ---------------------------------------------------------------------
\* Program constants
\* ---------------------------------------------------------------------
SemaphorePermits == 8
RouteId == 9001
DayStartMinute == 540
WalkingMpm == 75
MsPerMinute == 60000

\* ---------------------------------------------------------------------
\* Inputs: coordinates are <<lat, lng>> in hundredths of a degree.
\* ---------------------------------------------------------------------
P0 == <<3750, 12700>>
P1 == <<3751, 12701>>
P2 == <<3752, 12700>>
P3 == <<3518, 12908>>

\* Job carries the fields optimize reads (id, lat/lng, service_min); name,
\* priority, tw_start, tw_end, date and status are never read.
JobCatalogue ==
  << [id |-> 101, pt |-> P1, service_min |-> 10],
     [id |-> 102, pt |-> P2, service_min |-> 0],
     [id |-> 103, pt |-> P3, service_min |-> 30] >>

Vehicle(k) == [id |-> 900 + k, depot |-> P0]

\* req.date as the fields of its "%Y-%m-%d" text.
Dates == { <<2025, 10, 1>>, <<2024, 2, 29>>, <<2025, 2, 29>>, <<9999, 12, 31>> }

RECURSIVE SeqsUpTo(_, _)
SeqsUpTo(S, k) ==
  IF k = 0 THEN { <<>> }
  ELSE LET shorter == SeqsUpTo(S, k - 1)
       IN  shorter \cup { Append(s, x) : s \in shorter, x \in S }

JobLists == SeqsUpTo({ JobCatalogue[k] : k \in 1..Len(JobCatalogue) }, MaxJobs)
CataloguePrefixes == { SubSeq(JobCatalogue, 1, k) : k \in 0..Len(JobCatalogue) }
VehicleLists == { [k \in 1..m |-> Vehicle(k)] : m \in 0..MaxVehicles }

\* ---------------------------------------------------------------------
\* directions.py
\* ---------------------------------------------------------------------
\* haversine_m tabulated (by running it) on the coordinates above.
haversine_m(a, b) ==
  IF a = b THEN 0
  ELSE LET s == {a, b}
       IN  CASE s = {P0, P1} -> 1419
             [] s = {P0, P2} -> 2223
             [] s = {P0, P3} -> 318190
             [] s = {P1, P2} -> 1419
             [] s = {P1, P3} -> 318563
             [] s = {P2, P3} -> 319981

Max(x, y) == IF x >= y THEN x ELSE y

\* The body the external API answers with for start a, goal b (an input of
\* the environment): road distance in meters and duration in milliseconds.
NaverSummary(a, b) ==
  LET d == haversine_m(a, b) + (IF a[1] < b[1] THEN 300 ELSE 120)
  IN  [distance |-> d, duration |-> d * 120]

\* What can happen to the one GET of naver_distance_time.
HttpOutcomes == {"ok", "network", "status", "json", "field"}

\* naver_distance_time: the parsed pair, or an exception.
naver_distance_time(a, b, outcome) ==
  IF outcome = "ok"
  THEN LET s == NaverSummary(a, b)
       IN  [exc |-> "none",
            val |-> <<s.distance, Max(1, s.duration \div MsPerMinute)>>]
  ELSE [exc |-> CASE outcome = "network" -> "ConnectError"
                  [] outcome = "status"  -> "HTTPStatusError"
                  [] outcome = "json"    -> "JSONDecodeError"
                  [] outcome = "field"   -> "KeyError",
        val |-> <<0, 0>>]

\* The fallback of distance_time: haversine + walking 4.5 km/h.
Fallback(a, b) ==
  LET d_m == haversine_m(a, b)
  IN  <<d_m, Max(1, d_m \div WalkingMpm)>>

\* distance_time with the try/except of lines 52-55 left out.
distance_time_uncaught(use, a, b, outcome) ==
  IF use
  THEN LET r == naver_distance_time(a, b, outcome)
       IN  IF r.exc = "none" THEN [exc |-> "none", val |-> r.val]
           ELSE [exc |-> r.exc, val |-> r.val]
  ELSE [exc |-> "none", val |-> Fallback(a, b)]

\* distance_time once its awaited call has settled with `outcome`.
distance_time(use, a, b, outcome) ==
  IF use
  THEN LET r == naver_distance_time(a, b, outcome)
       IN  IF r.exc = "none" THEN [exc |-> "none", val |-> r.val]
           ELSE [exc |-> "none", val |-> Fallback(a, b)]
  ELSE [exc |-> "none", val |-> Fallback(a, b)]

\* ---------------------------------------------------------------------
\* datetime (strptime, timedelta addition, strftime)
\* ---------------------------------------------------------------------
IsLeap(y) == (y % 4 = 0) /\ ((y % 100 # 0) \/ (y % 400 = 0))

DaysInMonth(y, m) ==
  CASE m \in {1, 3, 5, 7, 8, 10, 12} -> 31
    [] m \in {4, 6, 9, 11} -> 30
    [] m = 2 -> IF IsLeap(y) THEN 29 ELSE 28

RECURSIVE DaysBeforeMonth(_, _)
DaysBeforeMonth(y, m) ==
  IF m = 1 THEN 0 ELSE DaysBeforeMonth(y, m - 1) + DaysInMonth(y, m - 1)

DaysBeforeYear(y) ==
  LET p == y - 1 IN p * 365 + p \div 4 - p \div 100 + p \div 400

Ymd2Ord(y, m, d) == DaysBeforeYear(y) + DaysBeforeMonth(y, m) + d

Ord2Ymd(ord) ==
  LET n0   == ord - 1
      n400 == n0 \div 146097
      r400 == n0 % 146097
      n100 == r400 \div 36524
      r100 == r400 % 36524
      n4   == r100 \div 1461
      r4   == r100 % 1461
      n1   == r4 \div 365
      r1   == r4 % 365
      year == n400 * 400 + 1 + n100 * 100 + n4 * 4 + n1
  IN  IF n1 = 4 \/ n100 = 4 THEN <<year - 1, 12, 31>>
      ELSE LET m == CHOOSE mm \in 1..12 :
                      /\ DaysBeforeMonth(year, mm) <= r1
                      /\ r1 < DaysBeforeMonth(year, mm) + DaysInMonth(year, mm)
           IN  <<year, m, r1 - DaysBeforeMonth(year, m) + 1>>

\* datetime.max is 9999-12-31 23:59:59.999999
MaxOrdinal == Ymd2Ord(9999, 12, 31)

\* datetime.strptime(req.date + " 09:00", "%Y-%m-%d %H:%M")
strptime(date) ==
  LET y == date[1]
      m == date[2]
      d == date[3]
  IN  IF y \in 1..9999 /\ m \in 1..12 /\ d >= 1 /\ d <= DaysInMonth(y, m)
      THEN [exc |-> "none", ts |-> [ord |-> Ymd2Ord(y, m, d), min |-> DayStartMinute]]
      ELSE [exc |-> "ValueError", ts |-> [ord |-> 0, min |-> 0]]

\* current_ts + timedelta(minutes = mins)
AddMinutes(ts, mins) ==
  LET total == ts.min + mins
      o     == ts.ord + total \div 1440
  IN  IF o > MaxOrdinal
      THEN [exc |-> "OverflowError", ts |-> ts]
      ELSE [exc |-> "none", ts |-> [ord |-> o, min |-> total % 1440]]

\* current_ts.strftime("%Y-%m-%dT%H:%M:%SZ") as its fields
strftime(ts) ==
  LET ymd == Ord2Ymd(ts.ord)
  IN  [Y |-> ymd[1], m |-> ymd[2], d |-> ymd[3],
       H |-> ts.min \div 60, M |-> ts.min % 60, S |-> 0]

\* ---------------------------------------------------------------------
\* app.py: state of one optimize call
\* ---------------------------------------------------------------------
VARIABLES
  req,            \* the OptimizeRequest: date, vehicles, jobs
  NAVER_USE,      \* directions.NAVER_USE, read once at import
  assertsEnabled, \* FALSE when the interpreter runs with -O
  netOutcome,     \* what the network does to the GET of each ordered pair
  pc,             \* position of the call in optimize
  exc,            \* the exception optimize raised, "none" otherwise
  status,         \* HTTP status of the response, 0 while running
  dist_m,         \* meters matrix
  walk_min_mat,   \* minutes matrix
  tstate,         \* per cell-fetch task: new / waiting / inflight / done
  started,        \* number of tasks the event loop has started
  sem,            \* value of the asyncio.Semaphore
  waiters,        \* FIFO queue of tasks blocked in sem.acquire
  holders,        \* tasks inside `async with sem`
  attempts,       \* per pair: GETs issued by naver_distance_time
  writes,         \* per cell: number of stores into the matrices
  solverRuns,     \* number of SolveWithParameters calls
  solved,         \* truth value of `solution`
  route_order,
  current_ts,
  seq,
  prev,
  km_total,       \* kept in meters (the code keeps d_m / 1000.0)
  min_total,
  route_stops,
  routes

vars == << req, NAVER_USE, assertsEnabled, netOutcome, pc, exc, status,
           dist_m, walk_min_mat, tstate, started, sem, waiters, holders,
           attempts, writes, solverRuns, solved, route_order, current_ts,
           seq, prev, km_total, min_total, route_stops, routes >>

matrixVars == << dist_m, walk_min_mat, tstate, started, sem, waiters, holders,
                 attempts, writes >>
walkVars   == << solved, route_order, current_ts, seq, prev, km_total, min_total,
                 route_stops, routes >>
envVars    == << req, NAVER_USE, assertsEnabled, netOutcome >>

\* n = len(points) = 1 + len(jobs)
NodeCount(jobs) == Len(jobs) + 1
n == NodeCount(req.jobs)
Nodes == 0..(n - 1)
Cells == Nodes \X Nodes

\* The (i, j) of the generator handed to gather, i != j.
PairsOf(k) == { c \in (0..(k - 1)) \X (0..(k - 1)) : c[1] # c[2] }
Pairs == PairsOf(n)

\* Position of wrapped(i, j) in the order gather creates the tasks.
TaskIndex(c) == c[1] * (n - 1) + (IF c[2] < c[1] THEN c[2] ELSE c[2] - 1) + 1

\* points = [depot] + [(j.lat, j.lng) for j in req.jobs]
points(i) == IF i = 0 THEN req.vehicles[1].depot ELSE req.jobs[i].pt

\* optimize with no up-front look at req.vehicles.
VehicleCheck_skipped(vehicles, asserts) == "none"

\* Lines 52 and 55: `assert req.vehicles`, then `req.vehicles[0]`.
VehicleCheck(vehicles, asserts) ==
  IF asserts /\ Len(vehicles) = 0 THEN "AssertionError"
  ELSE IF Len(vehicles) < 1 THEN "IndexError"
  ELSE "none"

\* FastAPI's answer to the caller: the handler's return value is a 200, an
\* exception escaping the handler is a 500.
HttpStatus(e) == IF e = "none" THEN 200 ELSE 500

\* A semaphore created per cell always has a free permit.
CanAcquire_percell(value, queue) == TRUE

\* sem.acquire returns at once iff the semaphore is not locked.
CanAcquire(value, queue) == value > 0 /\ queue = <<>>

\* A queued waiter resumes when a permit has been released.
CanResume(value) == value > 0

\* Waiting for the first finished task instead of all of them.
GatherDone_first(ts) == \E c \in DOMAIN ts : ts[c] = "done"

\* gather returns when every task has finished.
GatherDone(ts) == \A c \in DOMAIN ts : ts[c] = "done"

Raise(e) ==
  /\ pc' = "raised"
  /\ exc' = e
  /\ status' = HttpStatus(e)

\* ---------------------------------------------------------------------
\* Route solver (OR-Tools): a solution assigns every index its successor on
\* a path from Start (index 0) through every node to End (index n).
\* ---------------------------------------------------------------------
Perms(k) == { f \in [1..k -> 1..k] : \A a, b \in 1..k : f[a] = f[b] => a = b }

NextVarOf(p, k) ==
  [ i \in 0..(k - 1) |->
      IF i = 0 THEN (IF k = 1 THEN k ELSE p[1])
      ELSE LET at == CHOOSE a \in 1..(k - 1) : p[a] = i
           IN  IF at = k - 1 THEN k ELSE p[at + 1] ]

Solutions(k) == { NextVarOf(p, k) : p \in Perms(k - 1) }

\* Lines 103-108: walk from Start to End, keeping the nodes other than 0.
RECURSIVE WalkSolution(_, _, _)
WalkSolution(sol, idx, k) ==
  IF idx = k THEN <<>>
  ELSE (IF idx # 0 THEN <<idx>> ELSE <<>>) \o WalkSolution(sol, sol[idx], k)

\* list(range(1, n - 1)): the last job dropped.
NaturalOrder_short(k) == [ i \in 1..(k - 2) |-> i ]

\* Line 110: list(range(1, n))
NaturalOrder(k) == [ i \in 1..(k - 1) |-> i ]

\* ---------------------------------------------------------------------
\* Schedule materializer helpers
\* ---------------------------------------------------------------------
\* req.jobs[seq - 1]: the job looked up by stop position.
JobAt_position(jobs, node, position) == jobs[position]

\* req.jobs[node - 1] (Python lists are 0-based, TLA+ sequences 1-based)
JobAt(jobs, node, position) == jobs[node]

\* `prev = node` forgotten.
NextPrev_stuck(previous, node) == previous

\* prev = node
NextPrev(previous, node) == node

\* round(x, 2) of x = num / den >= 0, in hundredths; a tie depends on the
\* binary representation of the float, so both neighbours are possible.
Round2(num, den) ==
  LET q == (100 * num) \div den
      r == (100 * num) % den
  IN  IF 2 * r < den THEN {q}
      ELSE IF 2 * r > den THEN {q + 1}
      ELSE {q, q + 1}

\* round(km_total, 2), km_total given in meters
DistanceKm(meters) == Round2(meters, 1000)

\* round(1.0 / (0.5 + km_total), 2)
Score_halfoffset(meters) == Round2(1000, 500 + meters)

\* round(1.0 / (1.0 + km_total), 2), km_total given in meters
Score(meters) == Round2(1000, 1000 + meters)

\* ---------------------------------------------------------------------
\* Initial states
\* ---------------------------------------------------------------------
AllSame(k, o) == [ c \in PairsOf(k) |-> o ]
OneFails(k, bad) == [ c \in PairsOf(k) |-> IF c = bad THEN "network" ELSE "ok" ]

\* The network scenarios explored when the external API is enabled.
NetScenarios(k) ==
  { AllSame(k, o) : o \in HttpOutcomes } \cup { OneFails(k, c) : c \in PairsOf(k) }

InitCall ==
  /\ pc = "start"
  /\ exc = "none"
  /\ status = 0
  /\ dist_m = <<>>
  /\ walk_min_mat = <<>>
  /\ tstate = <<>>
  /\ started = 0
  /\ sem = 0
  /\ waiters = <<>>
  /\ holders = {}
  /\ attempts = <<>>
  /\ writes = <<>>
  /\ solverRuns = 0
  /\ solved = FALSE
  /\ route_order = <<>>
  /\ current_ts = [ord |-> 0, min |-> 0]
  /\ seq = 0
  /\ prev = 0
  /\ km_total = 0
  /\ min_total = 0
  /\ route_stops = <<>>
  /\ routes = <<>>

\* External API disabled: every request shape, fallback-only provider.
InitFallbackOnly ==
  /\ NAVER_USE = FALSE
  /\ \E d \in Dates, vs \in VehicleLists, js \in JobLists :
       /\ req = [date |-> d, vehicles |-> vs, jobs |-> js]
       /\ netOutcome = AllSame(NodeCount(js), "ok")
       /\ assertsEnabled \in (IF vs = <<>> THEN BOOLEAN ELSE {TRUE})

\* External API enabled: the catalogue's jobs, every network scenario.
InitExternal ==
  /\ NAVER_USE = TRUE
  /\ assertsEnabled = TRUE
  /\ \E js \in CataloguePrefixes :
       /\ req = [date |-> <<2025, 10, 1>>, vehicles |-> <<Vehicle(1)>>, jobs |-> js]
       /\ netOutcome \in NetScenarios(NodeCount(js))

Init == InitCall /\ (InitFallbackOnly \/ InitExternal)

\* ---------------------------------------------------------------------
\* Actions
\* ---------------------------------------------------------------------
\* Lines 52-62: the vehicle precondition, then the zeroed matrices.
CheckVehicles ==
  /\ pc = "start"
  /\ LET e == VehicleCheck(req.vehicles, assertsEnabled)
     IN  IF e # "none"
         THEN /\ Raise(e)
              /\ UNCHANGED << envVars, matrixVars, solverRuns, walkVars >>
         ELSE /\ pc' = "matrix"
              /\ dist_m' = [ c \in Cells |-> 0 ]
              /\ walk_min_mat' = [ c \in Cells |-> 0 ]
              /\ tstate' = [ c \in Pairs |-> "new" ]
              /\ attempts' = [ c \in Pairs |-> 0 ]
              /\ writes' = [ c \in Cells |-> 0 ]
              /\ sem' = SemaphorePermits
              /\ started' = 0
              /\ waiters' = <<>>
              /\ holders' = {}
              /\ UNCHANGED << envVars, exc, status, solverRuns, walkVars >>

\* fill(i, j) from the point where distance_time has settled: store the
\* pair, leave `async with sem`, finish the task.  An exception of
\* distance_time escapes fill, wrapped, gather and asyncio.run.
Settle(c, value, queue, outcome) ==
  LET r == distance_time(NAVER_USE, points(c[1]), points(c[2]), outcome)
  IN  IF r.exc # "none"
      THEN /\ Raise(r.exc)
           /\ sem' = value + 1
           /\ holders' = holders \ {c}
           /\ waiters' = queue
           /\ tstate' = [tstate EXCEPT ![c] = "done"]
           /\ UNCHANGED << dist_m, walk_min_mat, writes >>
      ELSE /\ dist_m' = [dist_m EXCEPT ![c] = r.val[1]]
           /\ walk_min_mat' = [walk_min_mat EXCEPT ![c] = r.val[2]]
           /\ writes' = [writes EXCEPT ![c] = @ + 1]
           /\ sem' = value + 1
           /\ holders' = holders \ {c}
           /\ waiters' = queue
           /\ tstate' = [tstate EXCEPT ![c] = "done"]
           /\ UNCHANGED << pc, exc, status >>

\* wrapped(i, j) once it holds a permit: fill calls distance_time, which
\* suspends in the GET when the external API is enabled and otherwise runs
\* to the end without yielding.
Enter(c, value, queue) ==
  IF NAVER_USE
  THEN /\ tstate' = [tstate EXCEPT ![c] = "inflight"]
       /\ attempts' = [attempts EXCEPT ![c] = @ + 1]
       /\ sem' = value
       /\ holders' = holders \cup {c}
       /\ waiters' = queue
       /\ UNCHANGED << pc, exc, status, dist_m, walk_min_mat, writes >>
  ELSE /\ Settle(c, value, queue, "ok")
       /\ UNCHANGED attempts

\* Lines 73-79: the event loop starts the next task of gather, which runs
\* up to its first suspension.
StartTask(c) ==
  /\ pc = "matrix"
  /\ tstate[c] = "new"
  /\ TaskIndex(c) = started + 1
  /\ started' = started + 1
  /\ IF CanAcquire(sem, waiters)
     THEN Enter(c, sem - 1, waiters)
     ELSE /\ tstate' = [tstate EXCEPT ![c] = "waiting"]
          /\ waiters' = Append(waiters, c)
          /\ UNCHANGED << pc, exc, status, dist_m, walk_min_mat, sem, holders,
                          attempts, writes >>
  /\ UNCHANGED << envVars, solverRuns, walkVars >>

\* The first queued waiter is woken by a release and takes the permit.
ResumeTask(c) ==
  /\ pc = "matrix"
  /\ waiters # <<>>
  /\ c = Head(waiters)
  /\ CanResume(sem)
  /\ Enter(c, sem - 1, Tail(waiters))
  /\ UNCHANGED << envVars, started, solverRuns, walkVars >>

\* directions.py 38-59: the GET of a suspended task settles.  The event loop
\* polls for I/O only when its ready queue, which holds the first step of
\* every task gather created, has been run.
HttpReturn(c) ==
  /\ pc = "matrix"
  /\ tstate[c] = "inflight"
  /\ started = Cardinality(Pairs)
  /\ Settle(c, sem, waiters, netOutcome[c])
  /\ UNCHANGED << envVars, started, attempts, solverRuns, walkVars >>

\* Lines 76-81: gather, build_matrix and asyncio.run return.
BuildMatrixReturn ==
  /\ pc = "matrix"
  /\ GatherDone(tstate)
  /\ pc' = "solve"
  /\ UNCHANGED << envVars, exc, status, matrixVars, solverRuns, walkVars >>

\* Lines 84-110: the solver either has a solution or has none.
Solve ==
  /\ pc = "solve"
  /\ solverRuns' = solverRuns + 1
  /\ \/ \E sol \in Solutions(n) :
          /\ solved' = TRUE
          /\ route_order' = WalkSolution(sol, 0, n)
     \/ /\ solved' = FALSE
        /\ route_order' = NaturalOrder(n)
  /\ pc' = "eta"
  /\ UNCHANGED << envVars, exc, status, matrixVars, current_ts, seq, prev,
                  km_total, min_total, route_stops, routes >>

\* Lines 113-119
ParseDate ==
  /\ pc = "eta"
  /\ LET r == strptime(req.date)
     IN  IF r.exc # "none"
         THEN /\ Raise(r.exc)
              /\ UNCHANGED << current_ts, seq, prev, km_total, min_total, route_stops >>
         ELSE /\ pc' = "loop"
              /\ current_ts' = r.ts
              /\ seq' = 1
              /\ prev' = 0
              /\ km_total' = 0
              /\ min_total' = 0
              /\ route_stops' = <<>>
              /\ UNCHANGED << exc, status >>
  /\ UNCHANGED << envVars, matrixVars, solverRuns, solved, route_order, routes >>

\* Lines 121-141: one iteration of `for node in route_order`.
MaterializeStop ==
  /\ pc = "loop"
  /\ Len(route_stops) < Len(route_order)
  /\ LET node     == route_order[Len(route_stops) + 1]
         d_m      == dist_m[<<prev, node>>]
         walk_min == walk_min_mat[<<prev, node>>]
         job      == JobAt(req.jobs, node, seq)
         t1       == AddMinutes(current_ts, walk_min)
         t2       == AddMinutes(t1.ts, job.service_min)
     IN  IF t1.exc # "none" \/ t2.exc # "none"
         THEN /\ Raise("OverflowError")
              /\ UNCHANGED << current_ts, seq, prev, km_total, min_total, route_stops >>
         ELSE /\ current_ts' = t2.ts
              /\ km_total' = km_total + d_m
              /\ min_total' = min_total + walk_min + job.service_min
              /\ route_stops' = Append(route_stops,
                   [route_id |-> RouteId, seq |-> seq, job_id |-> job.id,
                    eta_ts |-> strftime(t2.ts), etc_min |-> job.service_min,
                    dump_visit |-> FALSE])
              /\ seq' = seq + 1
              /\ prev' = NextPrev(prev, node)
              /\ UNCHANGED << pc, exc, status >>
  /\ UNCHANGED << envVars, matrixVars, solverRuns, solved, route_order, routes >>

\* Lines 143-151
Return ==
  /\ pc = "loop"
  /\ Len(route_stops) = Len(route_order)
  /\ \E dk \in DistanceKm(km_total), sc \in Score(km_total) :
       routes' = << [id |-> RouteId, vehicle_id |-> req.vehicles[1].id,
                     distance_km |-> dk, duration_min |-> min_total,
                     score |-> sc] >>
  /\ pc' = "done"
  /\ status' = HttpStatus("none")
  /\ UNCHANGED << envVars, exc, matrixVars, solverRuns, solved, route_order, current_ts,
                  seq, prev, km_total, min_total, route_stops >>

Next ==
  \/ CheckVehicles
  \/ \E c \in DOMAIN tstate : StartTask(c)
  \/ \E c \in DOMAIN tstate : ResumeTask(c)
  \/ \E c \in DOMAIN tstate : HttpReturn(c)
  \/ BuildMatrixReturn
  \/ Solve
  \/ ParseDate
  \/ MaterializeStop
  \/ Return

Spec == Init /\ [][Next]_vars

\* ---------------------------------------------------------------------
\* Properties
\* ---------------------------------------------------------------------

\* C1: whenever optimize returns for a request with at least one vehicle and
\* a non-empty job list, the response holds exactly one Route and exactly
\* len(jobs) Route Stops whose seq values are 1, 2, ..., len(jobs) in order,
\* with a solver solution as well as with the natural-order fallback.
C1_OneRouteAndSeqNumbers ==
  (pc = "done" /\ req.vehicles # <<>> /\ req.jobs # <<>>) =>
     /\ Len(routes) = 1
     /\ Len(route_stops) = Len(req.jobs)
     /\ \A k \in 1..Len(route_stops) : route_stops[k].seq = k

C1_Witness ==
  /\ pc = "done"
  /\ ~solved
  /\ Len(req.jobs) >= 2
  /\ Len(route_stops) = Len(req.jobs)

\* C2 as stated: the job_ids of the emitted stops are pairwise distinct and
\* are exactly the request's job ids.
C2_DistinctJobIds ==
  pc = "done" =>
     /\ \A a, b \in 1..Len(route_stops) :
          a # b => route_stops[a].job_id # route_stops[b].job_id
     /\ { route_stops[k].job_id : k \in 1..Len(route_stops) }
          = { req.jobs[k].id : k \in 1..Len(req.jobs) }

\* C2 amended: the stops are a bijection onto the request's job positions
\* (every node 1..len(jobs) is visited by exactly one stop) and the stop of
\* node k carries the id of jobs[k-1]; the stop job_ids are pairwise distinct
\* whenever the request's job ids are.
C2_StopsBijectOntoJobs ==
  pc = "done" =>
     /\ Len(route_stops) = Len(req.jobs)
     /\ \A node \in 1..Len(req.jobs) :
          Cardinality({ k \in 1..Len(route_order) : route_order[k] = node }) = 1
     /\ \A k \in 1..Len(route_stops) :
          /\ route_order[k] \in 1..Len(req.jobs)
          /\ route_stops[k].job_id = req.jobs[route_order[k]].id
     /\ (\A a, b \in 1..Len(req.jobs) : a # b => req.jobs[a].id # req.jobs[b].id)
          => (\A a, b \in 1..Len(route_stops) :
                a # b => route_stops[a].job_id # route_stops[b].job_id)

C2_Witness ==
  /\ pc = "done"
  /\ Len(route_stops) >= 2
  /\ route_order[1] # 1
  /\ \A a, b \in 1..Len(req.jobs) : a # b => req.jobs[a].id # req.jobs[b].id

\* C3: during the matrix build at most 8 Provider calls are in flight at any
\* time, every call in flight belongs to a task that holds a permit, and the
\* permits handed out never exceed the semaphore's 8.
C3_AtMostEightInFlight ==
  LET inflight == { c \in DOMAIN tstate : tstate[c] = "inflight" }
  IN  /\ Cardinality(inflight) <= 8
      /\ inflight \subseteq holders
      /\ Cardinality(holders) <= 8
      /\ pc = "matrix" => (sem >= 0 /\ sem + Cardinality(holders) = 8)

C3_Witness ==
  /\ pc = "matrix"
  /\ Cardinality({ c \in DOMAIN tstate : tstate[c] = "inflight" }) = 8
  /\ waiters # <<>>
  /\ \E c \in DOMAIN tstate : tstate[c] = "done"

\* C4: the solver does not start before every off-diagonal cell of both
\* matrices has been written; no cell is ever written twice nor fetched
\* twice; the diagonal cells are never written and still hold 0.
C4_JoinBarrier ==
  /\ \A c \in DOMAIN writes : writes[c] <= 1
  /\ \A c \in DOMAIN attempts : attempts[c] <= 1
  /\ (pc = "solve" \/ solverRuns > 0) =>
        /\ \A c \in Pairs : writes[c] = 1 /\ tstate[c] = "done"
        /\ \A i \in Nodes :
             /\ writes[<<i, i>>] = 0
             /\ dist_m[<<i, i>>] = 0
             /\ walk_min_mat[<<i, i>>] = 0

C4_Witness ==
  /\ solverRuns = 1
  /\ NAVER_USE
  /\ Cardinality(Pairs) > 8
  /\ \A c \in Pairs : writes[c] = 1

\* C5: distance_time never raises to its caller; the external API is tried at
\* most once per pair; a pair whose attempt failed holds the geodesic
\* fallback (haversine meters, max(1, floor(meters / 75)) minutes) while every
\* pair whose attempt succeeded holds the API's answer.
C5_ProviderAbsorbsFailure ==
  /\ exc \notin {"ConnectError", "HTTPStatusError", "JSONDecodeError", "KeyError"}
  /\ \A c \in DOMAIN attempts : attempts[c] <= 1
  /\ \A c \in DOMAIN tstate :
       tstate[c] = "done" =>
         LET a  == points(c[1])
             b  == points(c[2])
             hm == haversine_m(a, b)
             s  == NaverSummary(a, b)
         IN  IF NAVER_USE /\ netOutcome[c] = "ok"
             THEN /\ attempts[c] = 1
                  /\ dist_m[c] = s.distance
                  /\ walk_min_mat[c] =
                       (IF s.duration < 60000 THEN 1 ELSE s.duration \div 60000)
             ELSE /\ attempts[c] = (IF NAVER_USE THEN 1 ELSE 0)
                  /\ dist_m[c] = hm
                  /\ walk_min_mat[c] = (IF hm < 75 THEN 1 ELSE hm \div 75)

C5_Witness ==
  /\ pc = "done"
  /\ NAVER_USE
  /\ \E c, e \in Pairs :
       /\ netOutcome[c] = "network"
       /\ netOutcome[e] = "ok"
       /\ dist_m[c] = haversine_m(points(c[1]), points(c[2]))
       /\ dist_m[e] # haversine_m(points(e[1]), points(e[2]))

\* C6: a request with an empty vehicle list ends in an error, and up to that
\* error no Provider call was issued, no matrix existed or was written and
\* the solver was not invoked.
C6_EmptyVehiclesFailFast ==
  req.vehicles = <<>> =>
     /\ pc \in {"start", "raised"}
     /\ pc = "raised" => exc \in {"AssertionError", "IndexError"}
     /\ dist_m = <<>>
     /\ walk_min_mat = <<>>
     /\ tstate = <<>>
     /\ attempts = <<>>
     /\ writes = <<>>
     /\ holders = {}
     /\ started = 0
     /\ solverRuns = 0

C6_Witness ==
  /\ req.vehicles = <<>>
  /\ req.jobs # <<>>
  /\ pc = "raised"

\* C7: the error of an empty vehicle list reaches the caller as a client-side
\* request error (a 4xx status), not as a server failure.
C7_PreconditionIsClientError ==
  (pc = "raised" /\ req.vehicles = <<>>) => status \in 400..499

\* C8: with at least one vehicle optimize never propagates an error: it
\* returns a response for every Provider outcome, solver outcome and date.
C8_TotalWithVehicle ==
  req.vehicles # <<>> => pc # "raised"

\* C9: the k-th stop's ETA is 09:00 of the request date plus the travel
\* minutes of the first k legs (depot first, prev -> node) plus the service
\* minutes of the first k visited jobs; duration_min is that sum over all
\* stops; the total distance is the sum of the distances of those legs, with
\* no leg back to the depot; zero jobs give distance 0, duration 0, no stops.
C9_EtaIsPrefixSum ==
  pc \in {"loop", "done"} =>
    LET from(k) == IF k = 1 THEN 0 ELSE route_order[k - 1]
        leg(k)  == <<from(k), route_order[k]>>
        RECURSIVE travel(_), service(_), meters(_)
        travel(k)  == IF k = 0 THEN 0 ELSE travel(k - 1) + walk_min_mat[leg(k)]
        service(k) == IF k = 0 THEN 0
                      ELSE service(k - 1) + req.jobs[route_order[k]].service_min
        meters(k)  == IF k = 0 THEN 0 ELSE meters(k - 1) + dist_m[leg(k)]
        clock(k)   == 9 * 60 + travel(k) + service(k)
        day0       == Ymd2Ord(req.date[1], req.date[2], req.date[3])
        last       == Len(route_order)
    IN  /\ \A k \in 1..Len(route_stops) :
             LET e == route_stops[k].eta_ts
             IN  /\ e.m \in 1..12
                 /\ e.d \in 1..DaysInMonth(e.Y, e.m)
                 /\ Ymd2Ord(e.Y, e.m, e.d) = day0 + clock(k) \div 1440
                 /\ e.H * 60 + e.M = clock(k) % 1440
                 /\ e.M \in 0..59
                 /\ e.S = 0
        /\ pc = "done" =>
             /\ Len(route_stops) = last
             /\ routes[1].duration_min = travel(last) + service(last)
             /\ km_total = meters(last)
             /\ 10 * routes[1].distance_km - meters(last) \in -5..5
        /\ (pc = "done" /\ req.jobs = <<>>) =>
             /\ routes[1].distance_km = 0
             /\ routes[1].duration_min = 0
             /\ route_stops = <<>>

C9_Witness ==
  /\ pc = "done"
  /\ Len(route_stops) >= 2
  /\ route_order[1] # 1
  /\ route_stops[Len(route_stops)].eta_ts.d # req.date[3]
  /\ km_total > 0

\* C10 as stated: the score of every emitted route is strictly greater than
\* 0 and at most 1 (in hundredths: 1..100).
C10_ScoreInHalfOpenInterval ==
  pc = "done" => (routes[1].score > 0 /\ routes[1].score <= 100)

\* Distances (meters) at which the score is compared with the emitted one.
ProbeMeters == {0, 4, 5, 6, 600, 1419, 7000, 39000, 198999, 199000, 199001, 400000}

\* C10 amended: the score is in the closed interval [0, 1]; it is the
\* hundredth nearest to 1 / (1 + km), hence 1.0 at distance zero and 0.0 only
\* from 199 km on; and no larger distance has a larger score.
C10_ScoreInClosedInterval ==
  pc = "done" =>
    LET sc        == routes[1].score
        nearest(m) == { h \in 0..100 :
                          LET diff == h * (1000 + m) - 100000
                          IN  2 * (IF diff < 0 THEN -diff ELSE diff) <= 1000 + m }
    IN  /\ sc \in 0..100
        /\ sc \in nearest(km_total)
        /\ km_total = 0 => sc = 100
        /\ sc = 0 => km_total >= 199000
        /\ \A m \in ProbeMeters :
             m > km_total => \A h \in nearest(m) : h <= sc

C10_Witness ==
  /\ pc = "done"
  /\ routes[1].score = 0
  /\ km_total >= 199000

====
